---- MODULE Spec2Model ----
(***************************************************************************)
(* exrtool: the batch engine of src/src/exrtool.cpp.  A run owns the frame *)
(* groups, three atomic counters, the worker threads and a mutex-guarded   *)
(* error list.  Worker threads claim frame groups through the atomic       *)
(* cursor a_frames_started, decode and merge the files of the group, save  *)
(* the composite and report through a_progress / errors; the caller polls, *)
(* reads the errors and frees the run.                                     *)
(*                                                                         *)
(* Indexes: the C++ code counts from 0, TLA+ sequences from 1.  Cursor     *)
(* values, ix and lower_bound offsets keep the 0-based values of the code; *)
(* a sequence is read at offset + 1.                                       *)
(* Channel names are modelled by their rank in strcmp order                *)
(* (1 = "B", 2 = "G", 3 = "R"), so < on names is strcmp(lhs, rhs) < 0.     *)
(***************************************************************************)
EXTENDS Integers, Sequences, FiniteSets, TLC

VARIABLES
    \* the input of exrtool_process and what the codec finds on disk
    frames,            \* run.frames: sequence of [frame, files]
    input_files,       \* input->files: sequence of [name, channels]
    output_name,       \* run.output_name: the characters of the template
    atoi_overflow,     \* what atoi does with a value outside int in this build
    disk,              \* the channel lists the codec can find in a file's header
    num_files,         \* run.input.num_files
    num_threads,       \* the resolved thread count of exrtool_process
    has_progress_fn,   \* run.input.progress_fn != NULL
    \* exrtool_run
    a_frames_started,
    a_progress,
    a_threads_done,
    threads_started,   \* std::thread objects constructed so far
    threads_size,      \* run.threads.size()
    errors,            \* run.errors
    \* the workers: position and the locals of process_frame
    pc, ix, fi, ci, ok, hdr, channels, datas, headers, images,
    \* the caller of the C interface
    callerPc, gi, joined,
    progress, pollRet, errRet,
    \* the process
    crashed,
    \* history of the run
    calls,             \* cursor value -> number of process_frame calls
    saves,             \* frame index -> SaveEXRImageToFile calls
    returned,          \* frame index -> "none" | "ok" | "fail"
    decodedHdrs,       \* frame index -> the headers decoded for the group's
                       \* files so far, in file order
    allocated,         \* frame index -> the headers and images the codec
                       \* handed to process_frame, in order
    freed              \* frame index -> the headers and images process_frame
                       \* freed, in order

inputVars  == <<frames, input_files, output_name, atoi_overflow, disk,
               num_files, num_threads, has_progress_fn>>
atomicVars == <<a_frames_started, a_progress, a_threads_done>>
threadVars == <<threads_started, threads_size>>
localVars  == <<ix, fi, ci, ok, hdr, channels, datas, headers, images>>
callerVars == <<callerPc, gi, joined>>
obsVars    == <<progress, pollRet, errRet>>
histVars   == <<calls, saves, returned, decodedHdrs, allocated, freed>>

vars == <<inputVars, atomicVars, threadVars, localVars, callerVars, obsVars,
          histVars, errors, pc, crashed>>

----------------------------------------------------------------------------
(* Bounds of the model *)

MaxThreads == 2
MaxFrames == 2
MaxFiles == 2
MaxCores == 4
MaxChannels == 2
NumNames == 3
MaxInputs == 3

Names == 1..NumNames
PixelTypes == {"HALF", "FLOAT"}
Workers == 1..MaxThreads
Cursors == 0..(MaxFrames + MaxThreads)

\* no message (a null pointer)
Null == [kind |-> "null", ix |-> 0, file |-> 0, text |-> ""]

\* nothing has been returned to the caller yet
NoRet == [kind |-> "none", ix |-> 0, file |-> 0, text |-> ""]

----------------------------------------------------------------------------
(* Pure helpers *)

\* exrtool_process, lines 233-241: the number of worker threads
ResolveThreads(n, cores) ==
    IF n = 0 THEN (IF cores > 2 THEN cores - 2 ELSE 1) ELSE n

\* exrtool_run_file::use_channel
use_channel(file, name) == name \in file.channels

\* a search that always answers the end of the table
lower_bound_end(chs, name, first, count) == first + count

\* std::lower_bound over the channel table with the strcmp comparator:
\* the 0-based offset of the first entry whose name is not less than name
RECURSIVE lower_bound(_, _, _, _)
lower_bound(chs, name, first, count) ==
    IF count = 0 THEN first
    ELSE LET step == count \div 2
             mid == first + step
         IN  IF chs[mid + 1].name < name
             THEN lower_bound(chs, name, mid + 1, count - step - 1)
             ELSE lower_bound(chs, name, first, step)

\* std::vector::insert before the 0-based offset
InsertAt(s, offset, e) ==
    SubSeq(s, 1, offset) \o <<e>> \o SubSeq(s, offset + 1, Len(s))

\* process_frame, lines 120-132: the channel table after one channel
MergedChannels(chs, chan) ==
    LET offset == lower_bound(chs, chan.name, 0, Len(chs))
    IN  IF offset < Len(chs) /\ chs[offset + 1].name = chan.name
        THEN [chs EXCEPT ![offset + 1] = chan]
        ELSE InsertAt(chs, offset, chan)

\* an update that keeps the data of the earlier file
MergedDatasKeep(chs, ds, chan, data) ==
    LET offset == lower_bound(chs, chan.name, 0, Len(chs))
    IN  IF offset < Len(chs) /\ chs[offset + 1].name = chan.name
        THEN ds
        ELSE InsertAt(ds, offset, data)

\* process_frame, lines 120-132: the data table after one channel
MergedDatas(chs, ds, chan, data) ==
    LET offset == lower_bound(chs, chan.name, 0, Len(chs))
    IN  IF offset < Len(chs) /\ chs[offset + 1].name = chan.name
        THEN [ds EXCEPT ![offset + 1] = data]
        ELSE InsertAt(ds, offset, data)

\* std::atomic_uint32_t::fetch_add(1): the value stored.  The counters of a
\* run stay below frames + files + threads, far from the 32-bit wrap.
fetch_add(v) == v + 1

\* a bounds test that is off by one
InBoundsOffByOne(i) == i <= Len(frames)

\* process_next_frame, line 199: the claimed cursor value is a frame index
InBounds(i) == i < Len(frames)

\* a list that grows at the front
errorFront(errs, e) == <<e>> \o errs

\* exrtool_run::error, lines 64-65: the list after one more message
error(errs, e) == Append(errs, e)

\* exrtool_poll, line 266
PollComplete == a_threads_done = threads_size

\* exrtool_poll, line 263
PollDone == a_progress

\* a maximum that forgets the frame groups
PollMaxFilesOnly == num_files

\* exrtool_poll, line 264
PollMax == num_files + Len(frames)

\* a join that only waits for the worker to count itself as done
JoinReturnsEarly(t) == pc[t] \in {"finalnotify", "exited"}

\* exrtool_free, line 285: join returns once the thread has exited
JoinReturns(t) == pc[t] = "exited"

----------------------------------------------------------------------------
(* File names and the output template *)

\* A string is the sequence of its characters, a character is its ASCII code
\* ('0' = 48 .. '9' = 57, '#' = 35).  A uint32_t is held as the integer of
\* the same 32 bits read as two's complement, so the values from 2^31 up are
\* the negative ones and ~0u is -1; the cast (uint32_t) of an int keeps the
\* bits.  Arithmetic on the 32 bits is done on two 16-bit limbs.
Limb == 65536

\* the 32 bits hi * 2^16 + lo as the integer that holds them
ToInt(hi, lo) ==
    IF hi >= Limb \div 2 THEN (hi - Limb) * Limb + lo ELSE hi * Limb + lo

\* the upper and lower 16 bits of a uint32_t
Hi(v) == IF v < 0 THEN (v \div Limb) + Limb ELSE v \div Limb
Lo(v) == v % Limb

\* operator < of uint32_t, the order of the std::map of line 211
ULess(a, b) == IF (a < 0) = (b < 0) THEN a < b ELSE b < 0

\* isdigit in the C locale
isdigit(c) == c \in 48..57

\* strip_frame, line 21: end moves left over the trailing non-digits
\* (end counts the characters before it, end[-1] is str[end])
RECURSIVE SkipNonDigits(_, _)
SkipNonDigits(str, end) ==
    IF end > 0 /\ ~isdigit(str[end]) THEN SkipNonDigits(str, end - 1) ELSE end

\* strip_frame, line 23: begin moves left over the digits
RECURSIVE SkipDigits(_, _)
SkipDigits(str, begin) ==
    IF begin > 0 /\ isdigit(str[begin]) THEN SkipDigits(str, begin - 1)
    ELSE begin

\* atoi: one more decimal digit on the value so far.  wide records that the
\* value has left the range of int, over that it has left 32 bits.
AtoiStep(acc, d) ==
    LET lo == acc.lo * 10 + d
        hi == acc.hi * 10 + (lo \div Limb)
    IN  [hi |-> hi % Limb, lo |-> lo % Limb,
         wide |-> acc.wide \/ hi >= Limb \div 2,
         over |-> acc.over \/ hi >= Limb]

\* the value before the first digit
AtoiZero == [hi |-> 0, lo |-> 0, wide |-> FALSE, over |-> FALSE]

\* atoi: the digits from pos on, up to the first character that is no digit
RECURSIVE AtoiDigits(_, _, _)
AtoiDigits(str, pos, acc) ==
    IF pos < Len(str) /\ isdigit(str[pos + 1])
    THEN AtoiDigits(str, pos + 1, AtoiStep(acc, str[pos + 1] - 48))
    ELSE acc

\* INT_MAX
IntMax == 2147483647

\* atoi(str + pos), where str[pos] is a digit (no white space or sign to
\* skip).  A value outside int has undefined behaviour: a libc that converts
\* through a wider strtol keeps the low 32 bits, one that works in int range
\* stops at INT_MAX.
atoi(str, pos, overflow) ==
    LET acc == AtoiDigits(str, pos, AtoiZero)
    IN  IF acc.wide /\ overflow = "saturate" THEN IntMax
        ELSE ToInt(acc.hi, acc.lo)

\* ~0u
NoFrame == -1

\* strip_frame, lines 18-27
strip_frame(str, overflow) ==
    LET end == SkipNonDigits(str, Len(str))
        begin == SkipDigits(str, end)
    IN  IF begin = end THEN NoFrame ELSE atoi(str, begin, overflow)

\* the decimal digits of the uint32_t hi * 2^16 + lo, as printed by %u
RECURSIVE Decimal(_, _)
Decimal(hi, lo) ==
    IF hi = 0 /\ lo < 10 THEN <<48 + lo>>
    ELSE LET t == (hi % 10) * Limb + lo
         IN  Decimal(hi \div 10, t \div 10) \o <<48 + (t % 10)>>

\* "%0*u": the digits padded with zeros on the left up to the width
ZeroPadded(digits, width) ==
    IF Len(digits) >= width THEN digits
    ELSE [i \in 1..(width - Len(digits)) |-> 48] \o digits

\* char buf[32], line 168
BufSize == 32

\* snprintf into a buffer of the size: what fits before the terminator
Truncated(s, size) ==
    IF Len(s) > size - 1 THEN SubSeq(s, 1, size - 1) ELSE s

\* line 169: snprintf(buf, sizeof(buf), "%0*u", (int)num, frame)
FormatFrame(num, frame) ==
    Truncated(ZeroPadded(Decimal(Hi(frame), Lo(frame)), num), BufSize)

\* std::string::npos
Npos == -1

\* std::string::find_last_of('#'): the 0-based offset of the last '#'
find_last_of(name, c) ==
    LET S == {i \in 1..Len(name) : name[i] = c}
    IN  IF S = {} THEN Npos ELSE (CHOOSE i \in S : \A j \in S : j <= i) - 1

\* line 165: begin moves left while the character before it is '#'
RECURSIVE RunBegin(_, _)
RunBegin(name, begin) ==
    IF begin > 0 /\ name[begin] = 35 THEN RunBegin(name, begin - 1) ELSE begin

\* std::string::replace(begin, num, buf)
replace(name, begin, num, buf) ==
    SubSeq(name, 1, begin) \o buf \o SubSeq(name, begin + num + 1, Len(name))

\* process_frame, lines 161-171: the path the composite is saved to
OutputName(name, frame) ==
    LET end == find_last_of(name, 35)
    IN  IF frame # NoFrame /\ end # Npos
        THEN LET begin == RunBegin(name, end)
                 num == end - begin + 1
             IN  replace(name, begin, num, FormatFrame(num, frame))
        ELSE name

\* a map that appends every new key at the end
MapPushBack(m, key, rf) ==
    IF \E g \in 1..Len(m) : m[g].frame = key
    THEN [g \in 1..Len(m) |->
            IF m[g].frame = key
            THEN [frame |-> key, files |-> Append(m[g].files, rf)]
            ELSE m[g]]
    ELSE Append(m, [frame |-> key, files |-> <<rf>>])

\* line 225: frames[frame].push_back(rf) on the std::map, held as the sequence
\* of its entries in key order
MapPush(m, key, rf) ==
    IF \E g \in 1..Len(m) : m[g].frame = key
    THEN [g \in 1..Len(m) |->
            IF m[g].frame = key
            THEN [frame |-> key, files |-> Append(m[g].files, rf)]
            ELSE m[g]]
    ELSE LET before == Cardinality({g \in 1..Len(m) : ULess(m[g].frame, key)})
         IN  SubSeq(m, 1, before)
                \o <<[frame |-> key, files |-> <<rf>>]>>
                \o SubSeq(m, before + 1, Len(m))

----------------------------------------------------------------------------
(* The inputs *)

\* the channel lists a decoded header can hold: up to MaxChannels channels of
\* distinct names in any order, all of the file's pixel type
NameLists ==
    {s \in UNION {[1..n -> Names] : n \in 1..MaxChannels} :
        \A i, j \in DOMAIN s : i # j => s[i] # s[j]}
AllHeaders ==
    {[i \in DOMAIN s |-> [name |-> s[i], pixel_type |-> t]] :
        s \in NameLists, t \in PixelTypes}

\* the files of the concurrent runs: "R" alone, or "R" and "B"
\* the concurrent runs: every group is one file holding the channel "R", which
\* the caller requested or did not request
RunHeaders == {<<[name |-> 3, pixel_type |-> "HALF"]>>}
RunRequests == {{}, {3}}
RunGroupSizes == {1}

RECURSIVE SumTo(_, _)
SumTo(sz, g) == IF g = 0 THEN 0 ELSE sz[g] + SumTo(sz, g - 1)

\* the name of file k of the group of frame g: "a.1", "b.1", "a.2", ...
FileName(g, k) == <<96 + k, 46, 48 + g>>

\* the input that is grouped into F groups of sz[g] files: the files of one
\* frame follow each other
BuildInput(F, sz, req) ==
    [id \in 1..SumTo(sz, F) |->
        LET g == CHOOSE g \in 1..F : SumTo(sz, g - 1) < id /\ id <= SumTo(sz, g)
        IN  [name |-> FileName(g, id - SumTo(sz, g - 1)),
             channels |-> req[id]]]

\* exrtool_process, lines 211-231: the frame groups of the run.  Group g holds
\* sz[g] files; a file is named by its position in input->files.
BuildFrames(F, sz, req) ==
    [g \in 1..F |->
        [frame |-> g,
         files |-> [k \in 1..sz[g] |->
                      [name |-> SumTo(sz, g - 1) + k,
                       channels |-> req[SumTo(sz, g - 1) + k]]]]]

\* the state of a run that has no worker yet
InitState ==
    /\ a_frames_started = 0
    /\ a_progress = 0
    /\ a_threads_done = 0
    /\ threads_started = 0
    /\ threads_size = 0
    /\ errors = <<>>
    /\ pc = [w \in Workers |-> "unstarted"]
    /\ ix = [w \in Workers |-> 0]
    /\ fi = [w \in Workers |-> 0]
    /\ ci = [w \in Workers |-> 0]
    /\ ok = [w \in Workers |-> TRUE]
    /\ hdr = [w \in Workers |-> <<>>]
    /\ channels = [w \in Workers |-> <<>>]
    /\ datas = [w \in Workers |-> <<>>]
    /\ headers = [w \in Workers |-> <<>>]
    /\ images = [w \in Workers |-> <<>>]
    /\ joined = 0
    /\ progress = [done |-> 0, max |-> 0]
    /\ pollRet = "none"
    /\ errRet = NoRet
    /\ crashed = FALSE
    /\ calls = [i \in Cursors |-> 0]
    /\ saves = [i \in Cursors |-> <<>>]
    /\ returned = [i \in Cursors |-> "none"]
    /\ decodedHdrs = [i \in Cursors |-> <<>>]
    /\ allocated = [i \in Cursors |-> <<>>]
    /\ freed = [i \in Cursors |-> <<>>]

\* the template of the runs that do not vary it: "o.##"
RunOutputName == <<111, 46, 35, 35>>

\* the run as exrtool_process has built it, before the first thread
InitRun(FrameCounts, GroupSizes, Requests, Headers, Threads, ProgressFns) ==
    /\ \E F \in FrameCounts : \E sz \in [1..F -> GroupSizes] :
         \E req \in [1..SumTo(sz, F) -> Requests] :
            /\ frames = BuildFrames(F, sz, req)
            /\ input_files = BuildInput(F, sz, req)
            /\ num_files = SumTo(sz, F)
    /\ output_name = RunOutputName
    /\ atoi_overflow = "wrap"
    /\ gi = num_files
    /\ disk = Headers
    /\ num_threads \in Threads
    /\ has_progress_fn \in ProgressFns
    /\ callerPc = "launching"
    /\ InitState

\* exrtool_process, lines 233-241, over the thread counts and core counts
ThreadCounts ==
    {ResolveThreads(n, c) : n \in 0..MaxThreads, c \in 1..MaxCores}
        \cap 1..MaxThreads

Init ==
    InitRun(0..MaxFrames, RunGroupSizes, RunRequests, RunHeaders, ThreadCounts,
            BOOLEAN)

\* one worker and one frame group of up to MaxFiles files, with every header
\* and every set of requested names, and a progress callback
InitMerge ==
    InitRun({1}, 1..MaxFiles, SUBSET Names, AllHeaders, {1}, {TRUE})

\* file names, character by character
\* "a.0001.exr"
NameA0001 ==
    <<97, 46, 48, 48, 48, 49, 46, 101, 120, 114>>

\* "b.0001.exr"
NameB0001 ==
    <<98, 46, 48, 48, 48, 49, 46, 101, 120, 114>>

\* "c.0002.exr"
NameC0002 ==
    <<99, 46, 48, 48, 48, 50, 46, 101, 120, 114>>

\* "beauty.1023.exr"
NameBeauty1023 ==
    <<98, 101, 97, 117, 116, 121, 46, 49, 48, 50, 51, 46, 101, 120, 114>>

\* "beauty.exr"
NameBeauty ==
    <<98, 101, 97, 117, 116, 121, 46, 101, 120, 114>>

\* "a7b22.exr"
NameA7B22 ==
    <<97, 55, 98, 50, 50, 46, 101, 120, 114>>

\* "x.4294967295.exr"
NameUintMax ==
    <<120, 46, 52, 50, 57, 52, 57, 54, 55, 50, 57, 53, 46, 101, 120, 114>>

\* "x.2147483648.exr"
NameIntMaxPlus1 ==
    <<120, 46, 50, 49, 52, 55, 52, 56, 51, 54, 52, 56, 46, 101, 120, 114>>

NamePool ==
    {NameA0001, NameB0001, NameC0002, NameBeauty1023,
     NameBeauty, NameA7B22, NameUintMax, NameIntMaxPlus1}

\* output templates, character by character
\* "out.####.exr"
TemplateHashes ==
    <<111, 117, 116, 46, 35, 35, 35, 35, 46, 101, 120, 114>>

\* "out.exr"
TemplatePlain ==
    <<111, 117, 116, 46, 101, 120, 114>>

\* "#a##"
TemplateTwoRuns ==
    <<35, 97, 35, 35>>

\* "################################"
TemplateLongRun ==
    <<35, 35, 35, 35, 35, 35, 35, 35, 35, 35, 35, 35, 35, 35, 35, 35, 35,
      35, 35, 35, 35, 35, 35, 35, 35, 35, 35, 35, 35, 35, 35, 35>>

Templates ==
    {TemplateHashes, TemplatePlain, TemplateTwoRuns, TemplateLongRun}

\* exrtool_process is entered with up to MaxInputs files whose names are
\* drawn from the pool, each requesting the channel "R", and a template; one
\* worker, a progress callback, and either behaviour of atoi
InitNames ==
    /\ \E n \in 0..MaxInputs : \E names \in [1..n -> NamePool] :
         /\ input_files = [i \in 1..n |->
                              [name |-> names[i], channels |-> {3}]]
         /\ num_files = n
    /\ output_name \in Templates
    /\ atoi_overflow \in {"wrap", "saturate"}
    /\ frames = <<>>
    /\ gi = 0
    /\ callerPc = "grouping"
    /\ disk = RunHeaders
    /\ num_threads = 1
    /\ has_progress_fn = TRUE
    /\ InitState

----------------------------------------------------------------------------
(* exrtool_process: grouping the input files *)

\* lines 214-226: one turn of the loop over input->files
GroupFile ==
    /\ ~crashed
    /\ callerPc = "grouping"
    /\ gi < num_files
    /\ LET file == input_files[gi + 1]
           frame == strip_frame(file.name, atoi_overflow)
           rf == [name |-> gi + 1, channels |-> file.channels]
       IN  frames' = MapPush(frames, frame, rf)
    /\ gi' = gi + 1
    /\ UNCHANGED <<input_files, output_name, atoi_overflow, disk, num_files,
                   num_threads, has_progress_fn, atomicVars, threadVars,
                   localVars, callerPc, joined, obsVars, histVars, errors, pc,
                   crashed>>

\* lines 228-241: the run is created from the map and the thread count is
\* resolved
CreateRun ==
    /\ ~crashed
    /\ callerPc = "grouping"
    /\ gi = num_files
    /\ callerPc' = "launching"
    /\ UNCHANGED <<inputVars, atomicVars, threadVars, localVars, gi, joined,
                   obsVars, histVars, errors, pc, crashed>>

----------------------------------------------------------------------------
(* exrtool_process: launching the workers *)

\* line 244: emplace_back constructs the std::thread; the new thread runs from
\* here on, while run.threads.size() still has its old value
LaunchThread ==
    /\ ~crashed
    /\ callerPc = "launching"
    /\ threads_started = threads_size
    /\ threads_started < num_threads
    /\ threads_started' = threads_started + 1
    /\ pc' = [pc EXCEPT ![threads_started + 1] = "claim"]
    /\ UNCHANGED <<inputVars, atomicVars, threads_size, localVars, callerVars,
                   obsVars, histVars, errors, crashed>>

\* lines 243-257: emplace_back completes and the vector has grown by one;
\* after the last thread exrtool_process returns the run to the caller
PublishThread ==
    /\ ~crashed
    /\ callerPc = "launching"
    /\ threads_size < threads_started
    /\ threads_size' = threads_size + 1
    /\ callerPc' = IF threads_size + 1 = num_threads THEN "running"
                   ELSE "launching"
    /\ UNCHANGED <<inputVars, atomicVars, threads_started, localVars, gi,
                   joined, obsVars, histVars, errors, pc, crashed>>

----------------------------------------------------------------------------
(* The worker threads *)

CurFiles(w) == frames[ix[w] + 1].files
CurFile(w) == CurFiles(w)[fi[w]]

\* process_next_frame, lines 198-202: fetch the cursor; out of bounds ends the
\* worker's loop, otherwise process_frame starts on the claimed group
ClaimFrame(w) ==
    /\ ~crashed
    /\ pc[w] = "claim"
    /\ a_frames_started' = fetch_add(a_frames_started)
    /\ IF InBounds(a_frames_started)
       THEN /\ pc' = [pc EXCEPT ![w] = "decode"]
            /\ ix' = [ix EXCEPT ![w] = a_frames_started]
            /\ fi' = [fi EXCEPT ![w] = 1]
            /\ ok' = [ok EXCEPT ![w] = TRUE]
            /\ calls' = [calls EXCEPT ![a_frames_started] = @ + 1]
       ELSE /\ pc' = [pc EXCEPT ![w] = "finish"]
            /\ UNCHANGED <<ix, fi, ok, calls>>
    /\ UNCHANGED <<inputVars, a_progress, a_threads_done, threadVars, ci, hdr,
                   channels, datas, headers, images, callerVars, obsVars,
                   saves, returned, decodedHdrs, allocated, freed, errors,
                   crashed>>

\* run.error with a std::string passed for %s (lines 87, 95, 106, 178): the
\* formatting has undefined behaviour; the message holds the name, or garbage,
\* or the process dies in vsnprintf
Formatting == {"text", "garbage", "crash"}

\* the message of a failed step: the format string, the frame group it is
\* about, the input file named in it (0: none) and how the %s came out
Message(kind, w, file, fmt) ==
    [kind |-> kind, ix |-> ix[w], file |-> file, text |-> fmt]

\* a header or an image of the file, as a resource of the codec
Res(kind, file) == [kind |-> kind, file |-> file]

\* lines 85-104: what the codec has handed out when the step fails: the image
\* load fails on a parsed header
ParsedBefore(kind, file) ==
    IF kind = "load" THEN <<Res("header", file)>> ELSE <<>>

\* a failure path that frees nothing
FreedOnFailureNone(kind, file) == <<>>

\* lines 87-110: what a failed step frees before the break: line 107 frees
\* the header when the image load fails
FreedOnFailure(kind, file) ==
    IF kind = "load" THEN <<Res("header", file)>> ELSE <<>>

\* a failure that goes on with the file loop
BreakRetry(w) == "decode"

\* lines 89, 98, 110: break leaves the file loop for line 139
BreakTo(w) == "check"

\* process_frame, lines 85-113: one file is decoded.  A failure of the
\* version, header or image step records an error and leaves the loop;
\* success counts one progress unit and starts the channel loop.
DecodeFile(w) ==
    /\ ~crashed
    /\ pc[w] = "decode"
    /\ \/ \E h \in disk :
            /\ a_progress' = fetch_add(a_progress)
            /\ hdr' = [hdr EXCEPT ![w] = h]
            /\ ci' = [ci EXCEPT ![w] = 1]
            /\ pc' = [pc EXCEPT ![w] = "merge"]
            /\ decodedHdrs' = [decodedHdrs EXCEPT ![ix[w]] = Append(@, h)]
            /\ allocated' = [allocated EXCEPT
                                ![ix[w]] = @ \o <<Res("header", CurFile(w).name),
                                                  Res("image", CurFile(w).name)>>]
            /\ UNCHANGED <<ok, errors, crashed, freed>>
       \/ \E kind \in {"version", "header", "load"}, fmt \in Formatting :
            /\ IF fmt = "crash"
               THEN /\ crashed' = TRUE
                    /\ UNCHANGED <<errors, ok, pc, freed>>
               ELSE /\ errors' = error(errors,
                                       Message(kind, w, CurFile(w).name, fmt))
                    /\ freed' = [freed EXCEPT
                                    ![ix[w]] = @ \o FreedOnFailure(
                                                       kind, CurFile(w).name)]
                    /\ ok' = [ok EXCEPT ![w] = FALSE]
                    /\ pc' = [pc EXCEPT ![w] = BreakTo(w)]
                    /\ UNCHANGED crashed
            /\ allocated' = [allocated EXCEPT
                                ![ix[w]] = @ \o ParsedBefore(
                                                   kind, CurFile(w).name)]
            /\ UNCHANGED <<a_progress, hdr, ci, decodedHdrs>>
    /\ UNCHANGED <<inputVars, a_frames_started, a_threads_done, threadVars,
                   ix, fi, channels, datas, headers, images, callerVars,
                   obsVars, calls, saves, returned>>

\* process_frame, lines 115-133: one iteration of the channel loop
MergeChannel(w) ==
    /\ ~crashed
    /\ pc[w] = "merge"
    /\ ci[w] <= Len(hdr[w])
    /\ LET chan == hdr[w][ci[w]]
           data == [file |-> CurFile(w).name, plane |-> ci[w]]
       IN  IF use_channel(CurFile(w), chan.name)
           THEN /\ channels' = [channels EXCEPT
                                  ![w] = MergedChannels(channels[w], chan)]
                /\ datas' = [datas EXCEPT
                               ![w] = MergedDatas(channels[w], datas[w],
                                                  chan, data)]
           ELSE UNCHANGED <<channels, datas>>
    /\ ci' = [ci EXCEPT ![w] = @ + 1]
    /\ UNCHANGED <<inputVars, atomicVars, threadVars, ix, fi, ok, hdr,
                   headers, images, callerVars, obsVars, histVars, errors,
                   pc, crashed>>

\* process_frame, lines 135-137: the file's header and image are kept for the
\* release at the end, and the loop goes on to the next file
PushFile(w) ==
    /\ ~crashed
    /\ pc[w] = "merge"
    /\ ci[w] > Len(hdr[w])
    /\ headers' = [headers EXCEPT ![w] = Append(@, CurFile(w).name)]
    /\ images' = [images EXCEPT ![w] = Append(@, CurFile(w).name)]
    /\ hdr' = [hdr EXCEPT ![w] = <<>>]
    /\ ci' = [ci EXCEPT ![w] = 0]
    /\ IF fi[w] < Len(CurFiles(w))
       THEN /\ fi' = [fi EXCEPT ![w] = @ + 1]
            /\ pc' = [pc EXCEPT ![w] = "decode"]
       ELSE /\ pc' = [pc EXCEPT ![w] = "check"]
            /\ UNCHANGED fi
    /\ UNCHANGED <<inputVars, atomicVars, threadVars, ix, ok, channels, datas,
                   callerVars, obsVars, histVars, errors, crashed>>

\* a test that never finds the table empty
NoChannelsNever(chs) == FALSE

\* process_frame, line 139: the merged table is empty
NoChannels(chs) == Len(chs) = 0

\* a test that forgets the failures so far
OkIgnored(w) == TRUE

\* process_frame, line 139: no step of the frame has failed so far
OkSoFar(w) == ok[w]

\* process_frame, lines 139-144: an empty channel table is an error
CheckChannels(w) ==
    /\ ~crashed
    /\ pc[w] = "check"
    /\ IF OkSoFar(w) /\ NoChannels(channels[w])
       THEN /\ errors' = error(errors, Message("nochannels", w, 0, "text"))
            /\ ok' = [ok EXCEPT ![w] = FALSE]
            /\ pc' = [pc EXCEPT ![w] = "progress"]
       ELSE /\ pc' = [pc EXCEPT ![w] = IF ok[w] THEN "save" ELSE "progress"]
            /\ UNCHANGED <<errors, ok>>
    /\ UNCHANGED <<inputVars, atomicVars, threadVars, ix, fi, ci, hdr,
                   channels, datas, headers, images, callerVars, obsVars,
                   histVars, crashed>>

\* process_frame, lines 145-181: the composite is handed to
\* SaveEXRImageToFile; a failure records an error
SaveFrame(w) ==
    /\ ~crashed
    /\ pc[w] = "save"
    /\ \E ret \in {"ok", "fail"} :
         LET call == [channels |-> channels[w], datas |-> datas[w],
                      header |-> headers[w][1], ret |-> ret,
                      name |-> OutputName(output_name,
                                          frames[ix[w] + 1].frame)]
         IN  \/ /\ ret = "ok"
                /\ saves' = [saves EXCEPT ![ix[w]] = Append(@, call)]
                /\ pc' = [pc EXCEPT ![w] = "progress"]
                /\ UNCHANGED <<errors, ok, crashed>>
             \/ /\ ret = "fail"
                /\ \E fmt \in Formatting :
                     IF fmt = "crash"
                     THEN /\ crashed' = TRUE
                          /\ UNCHANGED <<errors, ok, pc, saves>>
                     ELSE /\ errors' = error(errors,
                                             Message("save", w, 0, fmt))
                          /\ ok' = [ok EXCEPT ![w] = FALSE]
                          /\ saves' = [saves EXCEPT ![ix[w]] = Append(@, call)]
                          /\ pc' = [pc EXCEPT ![w] = "progress"]
                          /\ UNCHANGED crashed
    /\ UNCHANGED <<inputVars, atomicVars, threadVars, ix, fi, ci, hdr,
                   channels, datas, headers, images, callerVars, obsVars,
                   calls, returned, decodedHdrs, allocated, freed>>

\* exrtool_poll, lines 262-266, as seen by whoever calls it
DoPoll ==
    /\ progress' = [done |-> PollDone, max |-> PollMax]
    /\ pollRet' = IF PollComplete THEN "true" ELSE "false"
    /\ UNCHANGED errRet

\* process_frame, lines 186-191: every header, then every image that was
\* pushed is freed
FreedAtEnd(hs, is) ==
    [i \in 1..Len(hs) |-> Res("header", hs[i])]
        \o [i \in 1..Len(is) |-> Res("image", is[i])]

\* process_frame, lines 184-193, and the loop test of the worker, line 245:
\* one more progress unit, the headers and images are freed, and the result
\* of process_frame decides whether the worker goes on
FinishFrame(w) ==
    /\ ~crashed
    /\ pc[w] = "progress"
    /\ a_progress' = fetch_add(a_progress)
    /\ returned' = [returned EXCEPT ![ix[w]] = IF ok[w] THEN "ok" ELSE "fail"]
    /\ pc' = [pc EXCEPT ![w] = IF ok[w]
                               THEN (IF has_progress_fn THEN "notify"
                                     ELSE "claim")
                               ELSE "finish"]
    /\ ix' = [ix EXCEPT ![w] = 0]
    /\ fi' = [fi EXCEPT ![w] = 0]
    /\ ci' = [ci EXCEPT ![w] = 0]
    /\ ok' = [ok EXCEPT ![w] = TRUE]
    /\ hdr' = [hdr EXCEPT ![w] = <<>>]
    /\ channels' = [channels EXCEPT ![w] = <<>>]
    /\ datas' = [datas EXCEPT ![w] = <<>>]
    /\ headers' = [headers EXCEPT ![w] = <<>>]
    /\ images' = [images EXCEPT ![w] = <<>>]
    /\ freed' = [freed EXCEPT ![ix[w]] = @ \o FreedAtEnd(headers[w], images[w])]
    /\ UNCHANGED <<inputVars, a_frames_started, a_threads_done, threadVars,
                   callerVars, obsVars, calls, saves, decodedHdrs, allocated,
                   errors, crashed>>

\* lines 246-248: the progress callback inside the loop; the callback is the
\* caller's code and may poll the run it is handed
Notify(w) ==
    /\ ~crashed
    /\ pc[w] = "notify"
    /\ pc' = [pc EXCEPT ![w] = "claim"]
    /\ \/ DoPoll
       \/ UNCHANGED obsVars
    /\ UNCHANGED <<inputVars, atomicVars, threadVars, localVars, callerVars,
                   histVars, errors, crashed>>

\* line 250: the worker has left its loop and counts itself as done
FinishThread(w) ==
    /\ ~crashed
    /\ pc[w] = "finish"
    /\ a_threads_done' = fetch_add(a_threads_done)
    /\ pc' = [pc EXCEPT ![w] = IF has_progress_fn THEN "finalnotify"
                               ELSE "exited"]
    /\ UNCHANGED <<inputVars, a_frames_started, a_progress, threadVars,
                   localVars, callerVars, obsVars, histVars, errors, crashed>>

\* lines 251-254: the last progress callback, then the thread function returns
FinalNotify(w) ==
    /\ ~crashed
    /\ pc[w] = "finalnotify"
    /\ pc' = [pc EXCEPT ![w] = "exited"]
    /\ \/ DoPoll
       \/ UNCHANGED obsVars
    /\ UNCHANGED <<inputVars, atomicVars, threadVars, localVars, callerVars,
                   histVars, errors, crashed>>

----------------------------------------------------------------------------
(* The caller, once exrtool_process has returned the run *)

\* exrtool_poll
Poll ==
    /\ ~crashed
    /\ callerPc = "running"
    /\ DoPoll
    /\ UNCHANGED <<inputVars, atomicVars, threadVars, localVars, callerVars,
                   histVars, errors, pc, crashed>>

\* exrtool_get_num_errors, line 272
NumErrors == Len(errors)

\* a count as the value returned to the caller
Count(n) == [kind |-> "count", ix |-> n, file |-> 0, text |-> ""]

\* exrtool_get_num_errors
GetNumErrors ==
    /\ ~crashed
    /\ callerPc = "running"
    /\ errRet' = Count(NumErrors)
    /\ UNCHANGED <<inputVars, atomicVars, threadVars, localVars, callerVars,
                   progress, pollRet, histVars, errors, pc,
                   crashed>>

\* exrtool_get_error: the message at the index, or null past the end
ErrorAt(errs, index) == IF index >= Len(errs) THEN Null ELSE errs[index + 1]

GetError(index) ==
    /\ ~crashed
    /\ callerPc = "running"
    /\ errRet' = ErrorAt(errors, index)
    /\ UNCHANGED <<inputVars, atomicVars, threadVars, localVars, callerVars,
                   progress, pollRet, histVars, errors, pc,
                   crashed>>

\* exrtool_free is entered, lines 282-284
FreeBegin ==
    /\ ~crashed
    /\ callerPc = "running"
    /\ callerPc' = "joining"
    /\ joined' = 0
    /\ UNCHANGED <<inputVars, atomicVars, threadVars, localVars, gi, obsVars,
                   histVars, errors, pc, crashed>>

\* exrtool_free, lines 284-286: the next thread of run.threads is joined
FreeJoin ==
    /\ ~crashed
    /\ callerPc = "joining"
    /\ joined < threads_size
    /\ JoinReturns(joined + 1)
    /\ joined' = joined + 1
    /\ UNCHANGED <<inputVars, atomicVars, threadVars, localVars, callerPc,
                   gi, obsVars, histVars, errors, pc, crashed>>

\* exrtool_free, line 287: the run is deleted
FreeDelete ==
    /\ ~crashed
    /\ callerPc = "joining"
    /\ joined = threads_size
    /\ callerPc' = "freed"
    /\ UNCHANGED <<inputVars, atomicVars, threadVars, localVars, gi, joined,
                   obsVars, histVars, errors, pc, crashed>>

----------------------------------------------------------------------------

MaxErrorIndex == MaxFrames

\* exrtool_process and the worker threads it starts
NextRun ==
    \/ LaunchThread
    \/ PublishThread
    \/ \E w \in Workers : ClaimFrame(w)
    \/ \E w \in Workers : DecodeFile(w)
    \/ \E w \in Workers : MergeChannel(w)
    \/ \E w \in Workers : PushFile(w)
    \/ \E w \in Workers : CheckChannels(w)
    \/ \E w \in Workers : SaveFrame(w)
    \/ \E w \in Workers : FinishFrame(w)
    \/ \E w \in Workers : Notify(w)
    \/ \E w \in Workers : FinishThread(w)
    \/ \E w \in Workers : FinalNotify(w)

\* the run together with a caller that polls, reads the errors and frees
Next ==
    \/ NextRun
    \/ Poll
    \/ GetNumErrors
    \/ \E index \in 0..MaxErrorIndex : GetError(index)
    \/ FreeBegin
    \/ FreeJoin
    \/ FreeDelete

Spec == Init /\ [][Next]_vars

\* one group processed by one worker while the caller does nothing
SpecMerge == InitMerge /\ [][NextRun]_vars

\* one step of the thread function of worker w, lines 244-254
WorkerStep(w) ==
    \/ ClaimFrame(w)
    \/ DecodeFile(w)
    \/ MergeChannel(w)
    \/ PushFile(w)
    \/ CheckChannels(w)
    \/ SaveFrame(w)
    \/ FinishFrame(w)
    \/ Notify(w)
    \/ FinishThread(w)
    \/ FinalNotify(w)

\* the run and a caller that frees it at some moment, without polling
NextLive ==
    \/ NextRun
    \/ FreeBegin
    \/ FreeJoin
    \/ FreeDelete

\* the scheduling: exrtool_process goes on launching, every started thread
\* keeps running (each codec call and each callback returns), and a caller
\* inside exrtool_free goes on joining and deleting
Fairness ==
    /\ WF_vars(LaunchThread)
    /\ WF_vars(PublishThread)
    /\ \A w \in Workers : WF_vars(WorkerStep(w))
    /\ WF_vars(FreeJoin)
    /\ WF_vars(FreeDelete)

SpecLive == Init /\ [][NextLive]_vars /\ Fairness

\* exrtool_process from its entry, and the worker it starts
NextNames ==
    \/ GroupFile
    \/ CreateRun
    \/ NextRun

SpecNames == InitNames /\ [][NextNames]_vars

----------------------------------------------------------------------------
(* Properties *)

\* the frame indexes of the run
FrameIxs == 0..(Len(frames) - 1)

\* the workers whose thread has been constructed
Launched == 1..threads_started

\* the worker has left its claim loop and incremented a_threads_done
Signalled(w) == pc[w] \in {"finalnotify", "exited"}

\* somebody can call exrtool_poll now: the caller that holds the run, or a
\* progress callback running on a worker
PollCallable ==
    \/ callerPc = "running"
    \/ \E w \in Workers : pc[w] \in {"notify", "finalnotify"}

\* the positions of the error list that are about frame index i
ErrorsOf(i) == {k \in 1..Len(errors) : errors[k].ix = i}

\* C1: failure isolation.  Once the run is complete, that is once each of the
\* num_threads workers has signalled that it is done, every frame group of
\* run.frames has been claimed and processed, whichever groups failed.
C1_FailureIsolation ==
    a_threads_done = num_threads =>
        \A i \in FrameIxs : calls[i] >= 1 /\ returned[i] # "none"

\* C2: task claiming is exclusive and in bounds.  Every cursor value is passed
\* to process_frame at most once, no value >= the number of frame groups is
\* ever processed, a worker inside process_frame holds an index in bounds, and
\* a worker that fetches an out-of-bounds value leaves its loop without
\* processing anything.
C2_ExclusiveClaims ==
    /\ [](/\ \A i \in Cursors : calls[i] <= 1
          /\ \A i \in Cursors : i >= Len(frames) => calls[i] = 0
          /\ \A w \in Workers :
                pc[w] \in {"decode", "merge", "check", "save", "progress"}
                    => ix[w] < Len(frames))
    /\ [][\A w \in Workers :
            (pc[w] = "claim" /\ pc'[w] # "claim"
                /\ a_frames_started >= Len(frames))
            => /\ pc'[w] = "finish"
               /\ calls' = calls
               /\ returned' = returned
               /\ decodedHdrs' = decodedHdrs
               /\ a_progress' = a_progress]_vars

\* C2 witness: two workers on one frame group; both have fetched the cursor,
\* the group was processed once and the other worker went away empty-handed
C2_Witness ==
    /\ num_threads = 2
    /\ Len(frames) = 1
    /\ a_frames_started = 3
    /\ calls[0] = 1
    /\ returned[0] = "ok"

\* C3: completion requires every worker's finish signal.  Whenever a poll
\* returns true, every worker thread launched so far has left its claim loop
\* and incremented the threads-finished counter.
C3_PollNeedsEveryWorker ==
    (PollCallable /\ PollComplete) => \A w \in Launched : Signalled(w)

\* C4: progress is monotone and bounded.  Every poll reports done <= max and
\* max = num_files + number of frame groups; from one poll to the next done
\* does not decrease and max does not change.
C4_ProgressMonotoneBounded ==
    /\ [](pollRet # "none" =>
            /\ progress.done <= progress.max
            /\ progress.max = num_files + Len(frames))
    /\ [][/\ progress'.done >= progress.done
          /\ pollRet # "none" => progress'.max = progress.max
          /\ num_files' = num_files
          /\ Len(frames') = Len(frames)]_vars

\* C4 witness: a run of two groups with one success and one failure has been
\* polled at its end
C4_Witness ==
    /\ pollRet = "true"
    /\ Len(frames) = 2
    /\ \E i, j \in FrameIxs : returned[i] = "ok" /\ returned[j] = "fail"
    /\ progress.done = a_progress
    /\ progress.done > 0

\* C5: release joins before freeing.  The run is deleted only when every
\* worker thread has returned from its thread function, the final progress
\* notification included, whether or not a poll has reported completion.
C5_FreeAfterJoin ==
    callerPc = "freed" => \A w \in 1..num_threads : pc[w] = "exited"

\* C5 witness: the run was freed without any poll, after two workers with a
\* progress callback processed two frame groups
C5_Witness ==
    /\ callerPc = "freed"
    /\ pollRet = "none"
    /\ has_progress_fn
    /\ num_threads = 2
    /\ Len(frames) = 2
    /\ \A i \in FrameIxs : returned[i] # "none"

\* C6: zero errors means full success.  Whenever a poll reports completion
\* and the error count is 0, every frame group has been processed and its
\* composite has been saved successfully.
C6_ZeroErrorsFullSuccess ==
    (PollCallable /\ PollComplete /\ NumErrors = 0) =>
        \A i \in FrameIxs :
            /\ returned[i] = "ok"
            /\ Len(saves[i]) = 1
            /\ saves[i][1].ret = "ok"

\* C7: the error list is append-only and arrival-ordered.  The error count
\* never decreases and grows by one message at a time, the message at an
\* index that is in range stays what it is, a count handed to the caller is
\* never above the current count, a lookup at an index >= the count yields
\* null, and a lookup changes nothing of the run.
C7_ErrorsAppendOnly ==
    /\ [][/\ Len(errors') >= Len(errors)
          /\ Len(errors') <= Len(errors) + 1
          /\ \A i \in 0..(Len(errors) - 1) :
                ErrorAt(errors', i) = ErrorAt(errors, i)]_vars
    /\ [](/\ \A i \in Len(errors)..(MaxErrorIndex + 1) :
                ErrorAt(errors, i) = Null
          /\ \A i \in 0..(Len(errors) - 1) : ErrorAt(errors, i) = errors[i + 1]
          /\ errRet.kind = "count" => errRet.ix <= Len(errors))
    /\ [][errRet' # errRet =>
            /\ errors' = errors
            /\ UNCHANGED <<atomicVars, threadVars, localVars, pc, histVars>>]_vars

\* C7 witness: two workers have each appended a message, and a lookup past
\* the end has returned null
C7_Witness ==
    /\ num_threads = 2
    /\ Len(errors) = 2
    /\ errors[1].ix # errors[2].ix
    /\ errRet = Null

\* the names of a header's channels
HdrNames(h) == {h[i].name : i \in DOMAIN h}

\* the names file k of a group supplies: held by its header and requested
Supplied(files, hdrs, k) == HdrNames(hdrs[k]) \cap files[k].channels

\* the last file, in submission order, that supplies name n (0: none)
LastSupplier(files, hdrs, n) ==
    LET S == {k \in 1..Len(hdrs) : n \in Supplied(files, hdrs, k)}
    IN  IF S = {} THEN 0 ELSE CHOOSE k \in S : \A j \in S : j <= k

\* the position in the group of the file of that name
FilePos(files, name) ==
    IF \E p \in 1..Len(files) : files[p].name = name
    THEN CHOOSE p \in 1..Len(files) : files[p].name = name
    ELSE 0

\* the worker is inside process_frame
InFrame(w) == pc[w] \in {"decode", "merge", "check", "save", "progress"}

\* the worker has decoded and merged every file of its group
ScannedAll(w) ==
    /\ pc[w] \in {"check", "save", "progress"}
    /\ Len(decodedHdrs[ix[w]]) = Len(CurFiles(w))

\* C8: merge is last-write-wins.  After all files of a group are scanned, the
\* entry of the merged table for a name carries the data reference and pixel
\* type of a plane of that name in the last file, in submission order, that
\* both holds and requested the name; a name no file supplies has no entry.
C8_LastWriteWins ==
    \A w \in Workers : ScannedAll(w) =>
        \A n \in Names :
            LET files == CurFiles(w)
                hdrs == decodedHdrs[ix[w]]
                k == LastSupplier(files, hdrs, n)
            IN  IF k = 0
                THEN \A j \in 1..Len(channels[w]) : channels[w][j].name # n
                ELSE \E j \in 1..Len(channels[w]) :
                        /\ channels[w][j].name = n
                        /\ j <= Len(datas[w])
                        /\ datas[w][j].file = files[k].name
                        /\ datas[w][j].plane \in DOMAIN hdrs[k]
                        /\ hdrs[k][datas[w][j].plane] = channels[w][j]

\* C8 witness: both files hold "B" and "R" with different pixel types; the
\* first requested both, the second only "R"
C8_Witness ==
    /\ pc[1] = "check"
    /\ Len(CurFiles(1)) = 2
    /\ Len(decodedHdrs[ix[1]]) = 2
    /\ CurFiles(1)[1].channels = {1, 3}
    /\ CurFiles(1)[2].channels = {3}
    /\ HdrNames(decodedHdrs[ix[1]][1]) = {1, 3}
    /\ HdrNames(decodedHdrs[ix[1]][2]) = {1, 3}
    /\ decodedHdrs[ix[1]][1][1].pixel_type # decodedHdrs[ix[1]][2][1].pixel_type

\* C9: the merged channel table is sorted and deduplicated.  After every step
\* of the channel loop the table is strictly ascending by name, the data
\* table has the same length, and entry k of it is the plane of the file and
\* channel that entry k of the channel table was taken from; after the last
\* file the names are exactly those some file of the group supplies.
C9_SortedDeduplicated ==
    \A w \in Workers : InFrame(w) =>
        LET chs == channels[w]
            ds == datas[w]
            files == CurFiles(w)
            hdrs == decodedHdrs[ix[w]]
        IN  /\ \A j \in 1..(Len(chs) - 1) : chs[j].name < chs[j + 1].name
            /\ Len(ds) = Len(chs)
            /\ \A j \in 1..Len(chs) :
                  LET p == FilePos(files, ds[j].file)
                  IN  /\ p \in 1..Len(hdrs)
                      /\ ds[j].plane \in DOMAIN hdrs[p]
                      /\ hdrs[p][ds[j].plane] = chs[j]
            /\ ScannedAll(w) =>
                  {chs[j].name : j \in 1..Len(chs)} =
                      UNION {Supplied(files, hdrs, k) : k \in 1..Len(hdrs)}

\* C9 witness: the files {"R", "G"} and {"B", "R"}, all requested, have been
\* merged to "B", "G", "R"
C9_Witness ==
    /\ pc[1] = "check"
    /\ Len(decodedHdrs[ix[1]]) = 2
    /\ \A k \in 1..2 : Len(decodedHdrs[ix[1]][k]) = 2
    /\ \A k \in 1..2 : CurFiles(1)[k].channels = {1, 2, 3}
    /\ [i \in 1..2 |-> decodedHdrs[ix[1]][1][i].name] = <<3, 2>>
    /\ [i \in 1..2 |-> decodedHdrs[ix[1]][2][i].name] = <<1, 3>>
    /\ [j \in 1..Len(channels[1]) |-> channels[1][j].name] = <<1, 2, 3>>

\* C10: a frame group whose files all decode but supply no requested channel
\* never reaches the save operation, and once process_frame has returned for
\* it the group has failed with exactly one error, the "no channels" error.
C10_NoChannelsNoSave ==
    \A i \in FrameIxs :
        LET files == frames[i + 1].files
            hdrs == decodedHdrs[i]
        IN  (/\ Len(hdrs) = Len(files)
             /\ \A k \in 1..Len(hdrs) : Supplied(files, hdrs, k) = {})
            => /\ saves[i] = <<>>
               /\ returned[i] # "none" =>
                    /\ returned[i] = "fail"
                    /\ Cardinality(ErrorsOf(i)) = 1
                    /\ \A k \in ErrorsOf(i) : errors[k].kind = "nochannels"

\* C10 witness: process_frame has returned for a group of two decoded files
\* that requested names their headers do not hold
C10_Witness ==
    /\ returned[0] = "fail"
    /\ Len(decodedHdrs[0]) = 2
    /\ \A k \in 1..2 : frames[1].files[k].channels # {}
    /\ \A k \in 1..2 : Supplied(frames[1].files, decodedHdrs[0], k) = {}
    /\ Len(errors) = 1
    /\ errors[1].kind = "nochannels"

----------------------------------------------------------------------------
(* Properties of the grouping and of the output path *)

\* the input files grouped so far, by their position in input->files
Grouped == 1..gi

\* the group that holds the input file (0: none)
GroupOf(id) ==
    LET S == {g \in 1..Len(frames) :
                \E k \in 1..Len(frames[g].files) : frames[g].files[k].name = id}
    IN  IF S = {} THEN 0 ELSE CHOOSE g \in S : TRUE

\* what strip_frame yields for the name of the input file
StripOf(id) == strip_frame(input_files[id].name, atoi_overflow)

\* the positions of the digits of a string
DigitPositions(str) == {i \in 1..Len(str) : isdigit(str[i])}

\* the string contains a digit
HasDigit(str) == DigitPositions(str) # {}

\* the rightmost maximal run of digits of a string that has a digit
RightmostRun(str) ==
    LET e == CHOOSE i \in DigitPositions(str) :
                \A j \in DigitPositions(str) : j <= i
        b == CHOOSE i \in 1..e :
                /\ \A j \in i..e : isdigit(str[j])
                /\ i > 1 => ~isdigit(str[i - 1])
    IN  SubSeq(str, b, e)

\* a digit string without its leading zeros ("0" stays "0")
RECURSIVE StripZeros(_)
StripZeros(digits) ==
    IF Len(digits) > 1 /\ digits[1] = 48 THEN StripZeros(Tail(digits))
    ELSE digits

\* the digit string denotes a value below 2^32
Fits32(digits) == ~AtoiDigits(digits, 0, AtoiZero).over

\* the decimal digits of a uint32_t
DecimalOf(v) == Decimal(Hi(v), Lo(v))

\* the groups hold the input files taken so far as C11 says
GroupedByFrame ==
    /\ \A id \in Grouped :
          Cardinality({<<g, k>> \in (1..Len(frames)) \X (1..MaxInputs) :
                          /\ k <= Len(frames[g].files)
                          /\ frames[g].files[k].name = id}) = 1
    /\ \A g \in 1..Len(frames) :
          /\ Len(frames[g].files) >= 1
          /\ \A k \in 1..Len(frames[g].files) :
                /\ frames[g].files[k].name \in Grouped
                /\ frames[g].files[k].channels =
                      input_files[frames[g].files[k].name].channels
                /\ StripOf(frames[g].files[k].name) = frames[g].frame
          /\ \A k \in 1..(Len(frames[g].files) - 1) :
                frames[g].files[k].name < frames[g].files[k + 1].name
    /\ \A i, j \in Grouped :
          (GroupOf(i) = GroupOf(j)) <=> (StripOf(i) = StripOf(j))
    /\ \A g \in 1..(Len(frames) - 1) :
          ULess(frames[g].frame, frames[g + 1].frame)
    /\ \A g, h \in 1..Len(frames) : g # h => frames[g].frame # frames[h].frame
    /\ \A g \in 1..Len(frames) : frames[g].frame = NoFrame => g = Len(frames)

\* C11: grouping.  Every input file taken so far is in exactly one frame
\* group, with the channels requested for it; two files share a group exactly
\* when strip_frame yields the same value for their names; the files of a
\* group are in submission order; the groups are in strictly ascending order
\* of their frame numbers, which are therefore unique, and the no-frame group,
\* if there is one, is the last.  This holds after every turn of the grouping
\* loop and when the run is created, and the groups of a run never change.
C11_Grouping ==
    /\ [](threads_started = 0 => GroupedByFrame)
    /\ [][callerPc # "grouping" => (frames' = frames /\ gi' = gi)]_vars

\* C11 witness: a.0001.exr, b.0001.exr, c.0002.exr are grouped into
\* frame 1 -> [a, b] and frame 2 -> [c]
C11_Witness ==
    /\ callerPc = "launching"
    /\ gi = 3
    /\ [i \in 1..3 |-> input_files[i].name] = <<NameA0001, NameB0001, NameC0002>>
    /\ Len(frames) = 2
    /\ frames[1].frame = 1
    /\ [k \in 1..Len(frames[1].files) |-> frames[1].files[k].name] = <<1, 2>>
    /\ frames[2].frame = 2
    /\ [k \in 1..Len(frames[2].files) |-> frames[2].files[k].name] = <<3>>

\* C12: frame-number extraction.  For every file name grouped so far,
\* strip_frame yields no-frame exactly when the name holds no digit, and
\* otherwise the integer value of the rightmost maximal run of digits, that
\* is the number whose decimal digits are that run without leading zeros.
C12_FrameNumberExtraction ==
    \A id \in Grouped :
        LET name == input_files[id].name
            v == frames[GroupOf(id)].frame
        IN  /\ GroupOf(id) # 0
            /\ IF HasDigit(name)
               THEN /\ v # NoFrame
                    /\ DecimalOf(v) = StripZeros(RightmostRun(name))
               ELSE v = NoFrame

\* the template holds a '#'
HasHash(t) == \E i \in 1..Len(t) : t[i] = 35

\* the position of the rightmost '#' of a template that holds one
HashEnd(t) ==
    CHOOSE i \in 1..Len(t) : t[i] = 35 /\ \A j \in (i + 1)..Len(t) : t[j] # 35

\* the first position of the run of '#' that ends at the rightmost '#'
HashBegin(t) ==
    CHOOSE i \in 1..HashEnd(t) :
        /\ \A j \in i..HashEnd(t) : t[j] = 35
        /\ i > 1 => t[i - 1] # 35

\* C13: output path.  Every path handed to the save operation is the template
\* itself when the frame is no-frame or the template holds no '#'; otherwise
\* it is the template with exactly the run of '#' that ends at the rightmost
\* '#' replaced by the decimal frame number, padded with zeros to at least the
\* length of the run, every other character kept.
C13_OutputPath ==
    \A i \in FrameIxs : \A c \in 1..Len(saves[i]) :
        LET name == saves[i][c].name
            frame == frames[i + 1].frame
            t == output_name
        IN  IF frame = NoFrame \/ ~HasHash(t)
            THEN name = t
            ELSE LET b == HashBegin(t)
                     e == HashEnd(t)
                     run == e - b + 1
                     k == Len(name) - Len(t) + run
                     digits == SubSeq(name, b, b + k - 1)
                 IN  /\ k >= run
                     /\ SubSeq(name, 1, b - 1) = SubSeq(t, 1, b - 1)
                     /\ SubSeq(name, b + k, Len(name))
                           = SubSeq(t, e + 1, Len(t))
                     /\ \A j \in 1..k : isdigit(digits[j])
                     /\ StripZeros(digits) = DecimalOf(frame)
                     /\ k > run => digits[1] # 48

\* C14: no-frame is distinct from every real frame number.  For every file
\* name grouped so far whose rightmost digit run denotes a value below 2^32,
\* strip_frame yields a value other than the one it yields for a name without
\* digits, the file shares its group with no file whose name has no digit,
\* and a path saved for its group has had the '#' run of the template
\* replaced.
C14_NoFrameDistinct ==
    \A id \in Grouped :
        LET name == input_files[id].name
        IN  (HasDigit(name) /\ Fits32(RightmostRun(name))) =>
                /\ StripOf(id) # strip_frame(<<>>, atoi_overflow)
                /\ \A other \in Grouped :
                      ~HasDigit(input_files[other].name)
                          => GroupOf(other) # GroupOf(id)
                /\ \A c \in 1..Len(saves[GroupOf(id) - 1]) :
                      HasHash(output_name)
                          => saves[GroupOf(id) - 1][c].name # output_name

----------------------------------------------------------------------------
(* Properties of the counters, the notifications and the resources *)

\* the kinds of message a failed decode step records
DecodeKinds == {"version", "header", "load"}

\* C15: the done counter counts every decode attempt.  Each time a worker
\* ends the decode of a source file, whether the file was decoded or the
\* version, header or image step failed, a_progress has grown by exactly one.
C15_DoneCountsEveryAttempt ==
    [][\A w \in Workers :
          (pc[w] = "decode" /\ pc'[w] # "decode")
              => a_progress' = a_progress + 1]_vars

\* C16: one notification per claimed index.  With a progress notification
\* configured, a worker whose process_frame call returns, with success or
\* with failure, goes on to invoke the notification for that index, which it
\* does once before it claims again; and a worker that leaves its loop
\* invokes the notification once more after counting itself as done.
C16_NotifyPerClaimedIndex ==
    [][\A w \in Workers :
          has_progress_fn =>
              /\ (pc[w] = "progress" /\ pc'[w] # "progress")
                    => pc'[w] = "notify"
              /\ (pc[w] = "notify" /\ pc'[w] # "notify") => pc'[w] = "claim"
              /\ (pc[w] = "finish" /\ pc'[w] # "finish")
                    => pc'[w] = "finalnotify"
              /\ (pc[w] = "finalnotify" /\ pc'[w] # "finalnotify")
                    => pc'[w] = "exited"]_vars

\* C17: a decode failure aborts the group.  When the decode of the k-th file
\* of a group fails, one message is recorded for that file; from then on the
\* group has exactly one error, exactly the k - 1 files before it have been
\* decoded, the worker is on its way out of process_frame with ok = false,
\* the save operation is never invoked for the group, and process_frame
\* returns failure.
C17_DecodeFailureAborts ==
    /\ [][\A w \in Workers :
            (pc[w] = "decode" /\ pc'[w] \notin {"decode", "merge"})
                => /\ Len(errors') = Len(errors) + 1
                   /\ errors'[Len(errors')].kind \in DecodeKinds
                   /\ errors'[Len(errors')].ix = ix[w]
                   /\ errors'[Len(errors')].file = CurFile(w).name
                   /\ ok'[w] = FALSE]_vars
    /\ [](\A i \in FrameIxs : \A p \in ErrorsOf(i) :
            errors[p].kind \in DecodeKinds =>
                LET k == FilePos(frames[i + 1].files, errors[p].file)
                IN  /\ k >= 1
                    /\ Len(decodedHdrs[i]) = k - 1
                    /\ Cardinality(ErrorsOf(i)) = 1
                    /\ saves[i] = <<>>
                    /\ returned[i] \in {"none", "fail"}
                    /\ \A w \in Workers :
                          (InFrame(w) /\ ix[w] = i)
                              => ~ok[w] /\ pc[w] \in {"check", "progress"})

\* C17 witness: the second file of a group failed to decode after the first
\* one had supplied a channel; process_frame has returned without a save
C17_Witness ==
    /\ returned[0] = "fail"
    /\ Len(frames[1].files) = 2
    /\ Len(errors) = 1
    /\ errors[1].kind = "header"
    /\ errors[1].file = frames[1].files[2].name
    /\ Len(decodedHdrs[0]) = 1
    /\ Supplied(frames[1].files, decodedHdrs[0], 1) # {}
    /\ saves[0] = <<>>

\* C18: worker exit protocol.  The threads-finished counter is the number of
\* workers that have left their claim loop, each counted once and only when
\* it is outside process_frame; it never decreases and never exceeds the
\* configured thread count; and a poll made during the final notification of
\* the last worker reports completion.
C18_ExitProtocol ==
    /\ [](/\ a_threads_done = Cardinality({w \in Workers : Signalled(w)})
          /\ a_threads_done <= num_threads
          /\ (a_threads_done = num_threads
                /\ \E w \in Workers : pc[w] = "finalnotify") => PollComplete)
    /\ [][/\ a_threads_done' >= a_threads_done
          /\ \A w \in Workers :
                (pc[w] = "finish" /\ pc'[w] # "finish")
                    => /\ a_threads_done' = a_threads_done + 1
                       /\ pc'[w] = IF has_progress_fn THEN "finalnotify"
                                   ELSE "exited"]_vars

\* C19: completion is stable and final.  Once a poll has returned true, the
\* next poll returns true with the same done value, and the error list no
\* longer changes.
C19_CompletionStable ==
    [][pollRet = "true" =>
          /\ pollRet' = "true"
          /\ progress'.done = progress.done
          /\ errors' = errors]_vars

\* the elements of a sequence
Range(seq) == {seq[k] : k \in 1..Len(seq)}

\* C20: per-frame resources are released on every exit path.  Every header
\* and image of a decoded file, and the header of a file whose image failed
\* to load, is handed out once; nothing is freed that was not handed out and
\* nothing is freed twice; and once process_frame has returned for a group,
\* with success or on any abort path, everything handed out for it has been
\* freed.
C20_ResourcesReleased ==
    \A i \in FrameIxs :
        /\ Cardinality(Range(allocated[i])) = Len(allocated[i])
        /\ Cardinality(Range(freed[i])) = Len(freed[i])
        /\ Range(freed[i]) \subseteq Range(allocated[i])
        /\ \A k \in 1..Len(decodedHdrs[i]) :
              {Res("header", frames[i + 1].files[k].name),
               Res("image", frames[i + 1].files[k].name)}
                  \subseteq Range(allocated[i])
        /\ returned[i] # "none" => Range(freed[i]) = Range(allocated[i])

\* C20 witness: the image of the second file failed to load after the first
\* file was decoded; process_frame has returned and the two headers and the
\* one image are freed
C20_Witness ==
    /\ returned[0] = "fail"
    /\ Len(errors) = 1
    /\ errors[1].kind = "load"
    /\ Len(decodedHdrs[0]) = 1
    /\ Len(allocated[0]) = 3
    /\ Len(freed[0]) = 3

----------------------------------------------------------------------------
(* Properties of the error count and of termination *)

\* the frame indexes that have been passed to process_frame
Claimed == {i \in FrameIxs : calls[i] >= 1}

\* C22: at most one error per frame group.  A message is only ever appended
\* by a worker inside process_frame, for the group it is processing; every
\* group has at most one message, so the error count is never above the
\* number of groups claimed so far nor above the number of groups.
C22_OneErrorPerGroup ==
    /\ [](/\ \A i \in FrameIxs : Cardinality(ErrorsOf(i)) <= 1
          /\ \A k \in 1..Len(errors) : errors[k].ix \in Claimed
          /\ Len(errors) <= Cardinality(Claimed)
          /\ Len(errors) <= Len(frames))
    /\ [][errors' # errors =>
            \E w \in Workers :
                /\ InFrame(w)
                /\ pc'[w] # pc[w]
                /\ ErrorsOf(ix[w]) = {}
                /\ errors' = Append(errors, errors'[Len(errors')])
                /\ errors'[Len(errors')].ix = ix[w]]_vars

\* C22 witness: two workers have each failed one group, one on a decode step
\* and one on the save, and the run holds two messages
C22_Witness ==
    /\ num_threads = 2
    /\ Len(frames) = 2
    /\ Len(errors) = 2
    /\ \A i \in FrameIxs : returned[i] = "fail"
    /\ \E k \in 1..2 : errors[k].kind \in DecodeKinds
    /\ \E k \in 1..2 : errors[k].kind = "save"

\* C21: every run terminates.  Under fair scheduling every worker eventually
\* increments the threads-finished counter, so that from some moment on the
\* counter equals the thread count and exrtool_poll returns true, and a call
\* of exrtool_free eventually returns.
C21_Terminates ==
    /\ <>[](a_threads_done = num_threads /\ PollComplete)
    /\ (callerPc = "joining") ~> (callerPc = "freed")

====
